---------------------------- MODULE Spec2Model ----------------------------
(***************************************************************************)
(* A model of ft2smb3.py: the conversion of a Famitracker text export into *)
(* the SMB3 sound engine's segment data.                                   *)
(*                                                                         *)
(* The input file is fixed when FTSong is constructed (tcontents); the     *)
(* model draws it in Init from a bounded family of songs and then follows  *)
(* the program: FTSong.__init__ finds the segment bounds, builds each      *)
(* FTSegment (rows parsed one by one, then set_note_lengths for every      *)
(* channel, then create_buffer for every channel), and dump_segments       *)
(* formats every segment.  An uncaught Python exception ends the run in    *)
(* pc = "error".                                                           *)
(***************************************************************************)
EXTENDS Integers, Sequences, FiniteSets, TLC

VARIABLES
    song,                   \* FTSong.tcontents: the ROW lines of the file
    pc,                     \* where the program is
    seg_bounds,             \* result of FTSong._get_segments
    segments,               \* FTSong.segments: the FTSegment objects built
    cur,                    \* the FTSegment under construction
    chan,                   \* position of the loop over self.channels.values()
    last_two_noise_notes,   \* FTSong.last_two_noise_notes
    warned,                 \* the "rest array is too large" warning was printed
    out,                    \* what dump_segments has formatted so far
    err                     \* the exception that ended the run ("" if none)

vars == <<song, pc, seg_bounds, segments, cur, chan, last_two_noise_notes,
          warned, out, err>>

(***************************************************************************)
(* Program constants                                                       *)
(***************************************************************************)
NOTES == << <<"C","-">>, <<"C","#">>, <<"D","-">>, <<"D","#">>, <<"E","-">>,
            <<"F","-">>, <<"F","#">>, <<"G","-">>, <<"G","#">>, <<"A","-">>,
            <<"A","#">>, <<"B","-">> >>

NOISE_NOTE_BYTES ==
    [n \in { <<d, "-">> : d \in {"0","1","2","3","4","5","6","7","8","9",
                                 "A","B","C","D","E","F"} } |->
        IF n[1] \in {"E", "F"} THEN 3 ELSE 2]

CHANNELS == <<"sq1", "sq2", "tri", "nse", "dpcm">>

SEGMENT_DATA_CHANNELS == <<"sq2", "sq1", "tri", "nse", "dpcm">>

\* the capacity the warning of set_note_lengths tests against
REST_ARRAY_MAX == 16

\* the length opcode: rest_array.index(length) | 0xa0
LENGTH_OPCODE == 160

\* the $00 byte that ends the sq2 and nse buffers
SEGMENT_END == 0

\* FTChannel.get_rest: 0x7E, and 1 for the noise channel
REST_BYTE == 126

NOISE_REST_BYTE == 1

ChannelSet == {CHANNELS[i] : i \in 1..Len(CHANNELS)}

\* None, as in last_two_noise_notes = [None, None]
None == [none |-> TRUE]

(***************************************************************************)
(* Python helpers                                                          *)
(***************************************************************************)
\* int() of the octave character
DigitValue ==
    [d \in {"0","1","2","3","4","5","6","7","8","9"} |->
        CASE d = "0" -> 0 [] d = "1" -> 1 [] d = "2" -> 2 [] d = "3" -> 3
          [] d = "4" -> 4 [] d = "5" -> 5 [] d = "6" -> 6 [] d = "7" -> 7
          [] d = "8" -> 8 [] d = "9" -> 9]

\* list.index(x), 0-based; the caller makes sure x is in the list
ListIndex(list, x) ==
    (CHOOSE i \in 1..Len(list) :
        /\ list[i] = x
        /\ \A j \in 1..(i - 1) : list[j] # x) - 1

InList(list, x) == \E i \in 1..Len(list) : list[i] = x

RECURSIVE BitOr(_, _)
\* a | b on non-negative integers
BitOr(a, b) ==
    IF a = 0 THEN b
    ELSE IF b = 0 THEN a
    ELSE (IF (a % 2 = 1) \/ (b % 2 = 1) THEN 1 ELSE 0)
         + 2 * BitOr(a \div 2, b \div 2)

\* bytearray.append(v) raises ValueError unless 0 <= v < 256
IsByte(v) == v >= 0 /\ v < 256

(***************************************************************************)
(* A channel column of a ROW line, after split(): <<note+octave,           *)
(* instrument, volume>>, the first a sequence of characters.               *)
(***************************************************************************)
get_note_field(chan_text) == SubSeq(chan_text[1], 1, Len(chan_text[1]) - 1)

get_octave_field(chan_text) == chan_text[1][Len(chan_text[1])]

get_volume_field(chan_text) == chan_text[3]

get_rest(wavetype) == IF wavetype = "nse" THEN NOISE_REST_BYTE ELSE REST_BYTE

\* FTNote.is_rest, for a note of channel wavetype
is_rest(note, wavetype) == note.notebyte = get_rest(wavetype)


(***************************************************************************)
(* FTNote                                                                  *)
(***************************************************************************)
\* FTNote.__init__ raises: KeyError from NOISE_NOTE_BYTES[note], ValueError
\* from NOTES.index(note) or from int(octave); "" when it returns
FTNoteError(note_text, wavetype, rest, clone) ==
    LET note == get_note_field(note_text) IN
    IF rest \/ clone # None THEN ""
    ELSE IF wavetype = "nse"
         THEN (IF note \in DOMAIN NOISE_NOTE_BYTES THEN "" ELSE "KeyError")
    ELSE IF wavetype = "dpcm"
         THEN (IF InList(NOTES, note) THEN "" ELSE "ValueError")
    ELSE IF get_octave_field(note_text) \in DOMAIN DigitValue
            /\ InList(NOTES, note)
         THEN "" ELSE "ValueError"

\* the note code of a pitch: FTNote.__init__, after the rest and clone cases
PitchByte(note_text, wavetype) ==
    LET note == get_note_field(note_text) IN
    IF wavetype = "nse" THEN NOISE_NOTE_BYTES[note]
    ELSE IF wavetype = "dpcm" THEN ListIndex(NOTES, note) + 1
    ELSE ListIndex(NOTES, note) * 2
         + (DigitValue[get_octave_field(note_text)] - 1) * 24

\* FTNote.__init__: the note object (its length is set by set_note_lengths)
FTNote(row, note_text, wavetype, rest, clone) ==
    [row |-> row,
     notebyte |-> IF rest THEN get_rest(wavetype)
                  ELSE IF clone # None THEN clone.notebyte
                  ELSE PitchByte(note_text, wavetype)]

(***************************************************************************)
(* FTChannel.parse_chan_text                                               *)
(***************************************************************************)
BLANK_NOTE == <<".", ".">>

CUTOFF_NOTE == <<"-", "-">>

\* case 1b: the note field is neither '...' nor '---'
CreatesNote(chan_text) ==
    /\ get_note_field(chan_text) # BLANK_NOTE
    /\ get_note_field(chan_text) # CUTOFF_NOTE

\* the channels whose volume column is read (not in ['tri', 'dpcm'])
UsesVolume(wavetype) == wavetype \notin {"tri", "dpcm"}

\* a parse_chan_text in which volume 0 makes a rest only of a row without
\* a new note
IsRestRowUnlessNote(chan_text, wavetype) ==
    \/ get_note_field(chan_text) = CUTOFF_NOTE
    \/ /\ UsesVolume(wavetype)
       /\ get_volume_field(chan_text) = "0"
       /\ get_note_field(chan_text) = BLANK_NOTE

\* cases 1a and 2b: a cutoff, or volume 0 on a channel that reads the volume
IsRestRow(chan_text, wavetype) ==
    \/ get_note_field(chan_text) = CUTOFF_NOTE
    \/ UsesVolume(wavetype) /\ get_volume_field(chan_text) = "0"

\* the row reaches the test last_two_noise_notes[0].is_rest() of case 2a
AsksClone(chan_text, wavetype) ==
    /\ UsesVolume(wavetype)
    /\ get_volume_field(chan_text) # "0"
    /\ get_note_field(chan_text) = BLANK_NOTE
    /\ get_volume_field(chan_text) # "."
    /\ wavetype = "nse"

\* a parse_chan_text that clones the most recent noise note
CloneObjMostRecent(notes, ltn) == ltn[1]

\* the note cloned: last_two_noise_notes[1] if there is one, else notes[-2]
CloneObj(notes, ltn) ==
    IF ltn[2] # None THEN ltn[2] ELSE notes[Len(notes) - 1]

\* parse_chan_text of one column: the channel's notes and the song's
\* last_two_noise_notes afterwards, or the exception it raises
parse_chan_text(wavetype, notes, ltn, row, chan_text) ==
    LET asks == AsksClone(chan_text, wavetype)
        attr_error == asks /\ ltn[1] = None
        is_clone == asks /\ ~attr_error /\ is_rest(ltn[1], "nse")
        index_error == is_clone /\ ltn[2] = None /\ Len(notes) < 2
        rest == IsRestRow(chan_text, wavetype)
        create_note == CreatesNote(chan_text)
        cloneobj == IF is_clone /\ ~index_error
                    THEN CloneObj(notes, ltn) ELSE None
        make == create_note \/ is_clone \/ rest
        note_error == IF make
                      THEN FTNoteError(chan_text, wavetype, rest, cloneobj)
                      ELSE ""
    IN
    IF attr_error THEN [err |-> "AttributeError", notes |-> notes, ltn |-> ltn]
    ELSE IF index_error THEN [err |-> "IndexError", notes |-> notes, ltn |-> ltn]
    ELSE IF note_error # "" THEN [err |-> note_error, notes |-> notes, ltn |-> ltn]
    ELSE IF make
    THEN LET note == FTNote(row, chan_text, wavetype, rest, cloneobj) IN
         [err |-> "",
          notes |-> Append(notes, note),
          ltn |-> IF wavetype = "nse" THEN <<note, ltn[1]>> ELSE ltn]
    ELSE [err |-> "", notes |-> notes, ltn |-> ltn]

RECURSIVE ParseColumns(_, _, _, _, _)
\* FTSegment._parse_row from column i on: the channels are parsed in the
\* order of CHANNELS, and an exception leaves the later columns unparsed
ParseColumns(i, channels, ltn, row, line) ==
    IF i > Len(CHANNELS) THEN [err |-> "", channels |-> channels, ltn |-> ltn]
    ELSE LET c == CHANNELS[i]
             r == parse_chan_text(c, channels[c].notes, ltn, row, line[c])
             after == [channels EXCEPT ![c].notes = r.notes]
         IN IF r.err # ""
            THEN [err |-> r.err, channels |-> channels, ltn |-> ltn]
            ELSE ParseColumns(i + 1, after, r.ltn, row, line)

(***************************************************************************)
(* FTChannel.set_note_lengths                                              *)
(***************************************************************************)
\* the length of note i: the rows to the next note, and for the last note
\* last_row minus its row
NoteLength(notes, i, last_row) ==
    IF i < Len(notes) THEN notes[i + 1].row - notes[i].row
    ELSE last_row - notes[i].row

RECURSIVE AppendLengths(_, _)
\* "if length not in rest_array: rest_array.append(length)", for each length
AppendLengths(rest_array, lengths) ==
    IF lengths = << >> THEN rest_array
    ELSE AppendLengths(IF InList(rest_array, Head(lengths)) THEN rest_array
                       ELSE Append(rest_array, Head(lengths)),
                       Tail(lengths))

\* the notes with their lengths set
WithLengths(notes, last_row) ==
    [i \in 1..Len(notes) |->
        [row |-> notes[i].row, notebyte |-> notes[i].notebyte,
         length |-> NoteLength(notes, i, last_row)]]

\* the rest array after set_note_lengths of a channel
RestArrayAfter(notes, last_row, rest_array) ==
    AppendLengths(rest_array,
                  [i \in 1..Len(notes) |-> NoteLength(notes, i, last_row)])

(***************************************************************************)
(* FTChannel.create_buffer                                                 *)
(***************************************************************************)
\* the length byte of a note
LengthByte(rest_array, length) ==
    BitOr(ListIndex(rest_array, length), LENGTH_OPCODE)

\* a create_buffer that puts a length byte before every note
NeedsLengthAlways(notes, i) == TRUE

\* a length byte precedes note i: the first note, and a note whose length
\* differs from last_len
NeedsLength(notes, i) == i = 1 \/ notes[i].length # notes[i - 1].length

\* a create_buffer that ends only the sq2 buffer with $00
IsMasterSq2Only(wavetype) == wavetype = "sq2"

\* the channels that end their buffer with $00
IsMaster(wavetype) == wavetype \in {"sq2", "nse"}

RECURSIVE NoteBytes(_, _, _)
\* the bytes appended for the notes from i on
NoteBytes(notes, rest_array, i) ==
    IF i > Len(notes) THEN << >>
    ELSE (IF NeedsLength(notes, i)
          THEN <<LengthByte(rest_array, notes[i].length)>> ELSE << >>)
         \o <<notes[i].notebyte>>
         \o NoteBytes(notes, rest_array, i + 1)

\* the values create_buffer appends, in order
BufferValues(notes, rest_array, wavetype) ==
    IF Len(notes) = 0 THEN << >>
    ELSE NoteBytes(notes, rest_array, 1)
         \o (IF IsMaster(wavetype) THEN <<SEGMENT_END>> ELSE << >>)

\* bytearray.append raises ValueError on a value outside range(256)
BufferError(values) ==
    IF \A i \in 1..Len(values) : IsByte(values[i]) THEN "" ELSE "ValueError"

(***************************************************************************)
(* FTSong._get_segments                                                    *)
(* A ROW line is [fx, cols]: the Cxx marker texts found in its effect      *)
(* columns and its five channel columns.  Text offsets are row numbers:    *)
(* the bound (start, end) is the slice of the rows start .. end - 1.       *)
(***************************************************************************)
HEX == <<"0","1","2","3","4","5","6","7","8","9","A","B","C","D","E","F">>

\* 'C{:02X}'.format(nsegs), for nsegs below 256
MarkerText(nsegs) == <<"C", HEX[(nsegs \div 16) + 1], HEX[(nsegs % 16) + 1]>>

\* re.search(cmdtxt, tcontents) followed by rfind('ROW', 0, m.start()): the
\* first row that holds the marker, 0 when there is no match
MarkerRow(text, nsegs) ==
    LET found == {r \in 1..Len(text) : MarkerText(nsegs) \in text[r].fx} IN
    IF nsegs > 255 \/ found = {} THEN 0
    ELSE CHOOSE r \in found : \A q \in found : r <= q

\* a _get_segments whose next segment starts after the line of the command
NextSegStartAfter(cmd_lineoff) == cmd_lineoff + 1

\* "Next segment starts at the line of the command"
NextSegStart(cmd_lineoff) == cmd_lineoff

RECURSIVE SegmentsFrom(_, _, _, _)
\* the while loop of _get_segments
SegmentsFrom(text, nsegs, segstart, bounds) ==
    LET cmd_lineoff == MarkerRow(text, nsegs) IN
    IF cmd_lineoff = 0 THEN bounds
    ELSE SegmentsFrom(text, nsegs + 1, NextSegStart(cmd_lineoff),
                      Append(bounds, <<segstart, cmd_lineoff>>))

\* _get_segments: the first segment starts at the first ROW
get_segments(text) == SegmentsFrom(text, 0, 1, << >>)

(***************************************************************************)
(* FTSegment.format_smb3_asm                                               *)
(***************************************************************************)
RECURSIVE ConcatBuffers(_, _)
\* segdata: the channel buffers in the order of SEGMENT_DATA_CHANNELS
ConcatBuffers(channels, i) ==
    IF i > Len(SEGMENT_DATA_CHANNELS) THEN << >>
    ELSE channels[SEGMENT_DATA_CHANNELS[i]].buffer
         \o ConcatBuffers(channels, i + 1)

\* a format_smb3_asm that gives every channel the lengths before it
HeaderOffsetAlways(before, len) == before

\* "off = <lengths before> if len > 0 else 0"
HeaderOffset(before, len) == IF len > 0 THEN before ELSE 0

format_smb3_asm(seg) ==
    LET sq2l == Len(seg.channels["sq2"].buffer)
        sq1l == Len(seg.channels["sq1"].buffer)
        tril == Len(seg.channels["tri"].buffer)
        nsel == Len(seg.channels["nse"].buffer)
        dpcml == Len(seg.channels["dpcm"].buffer)
    IN [rest_array |-> seg.rest_array,
        segdata |-> ConcatBuffers(seg.channels, 1),
        sq1off |-> HeaderOffset(sq2l, sq1l),
        trioff |-> HeaderOffset(sq2l + sq1l, tril),
        nseoff |-> HeaderOffset(sq2l + sq1l + tril, nsel),
        dpcmoff |-> HeaderOffset(sq2l + sq1l + tril + nsel, dpcml)]

(***************************************************************************)
(* The songs checked.  Every song has the five 2A03 columns.               *)
(***************************************************************************)
\* the longest segment of a song with one sounding channel
MaxRows == 3

\* the longest segment of a song with several sounding channels
MaxMultiRows == 2

\* a channel column "XYo ii v"
Col(a, b, o, v) == << <<a, b, o>>, IF a = "." \/ a = "-" THEN ".." ELSE "00", v >>

BlankCol == Col(".", ".", ".", ".")

\* the columns a channel may hold besides the blank one
Columns(c) ==
    IF c \in {"sq1", "sq2"}
    THEN {Col("C", "-", "3", "F"), Col("D", "-", "3", "F"),
          Col(".", ".", ".", "0"), Col("-", "-", "-", "."),
          Col("C", "-", "1", "0"), Col("C", "-", "1", "."),
          Col("G", "#", "7", "F"), Col(".", ".", ".", "F")}
    ELSE IF c = "tri"
    THEN {Col("C", "-", "3", "."), Col("-", "-", "-", "."),
          Col(".", ".", ".", "0"), Col("C", "-", "1", "0"),
          Col("B", "-", "0", ".")}
    ELSE IF c = "nse"
    THEN {Col("E", "-", "#", "F"), Col("0", "-", "#", "F"),
          Col(".", ".", ".", "0"), Col(".", ".", ".", "F"),
          Col("-", "-", "-", "."), Col("E", "-", "#", "0")}
    ELSE {Col("C", "-", "3", "."), Col("D", "-", "3", "."),
          Col("-", "-", "-", "."), Col(".", ".", ".", "0")}

\* the plain note of a channel
PlainNote(c) ==
    IF c \in {"sq1", "sq2"} THEN Col("C", "-", "3", "F")
    ELSE IF c = "nse" THEN Col("E", "-", "#", "F")
    ELSE Col("C", "-", "3", ".")

BlankLine == [c \in ChannelSet |-> BlankCol]

\* a row without marker, and the row that carries marker Cnn
Row(cols) == [fx |-> {}, cols |-> cols]

MarkerLine(nsegs) == [fx |-> {MarkerText(nsegs)}, cols |-> BlankLine]

\* one segment: the rows, closed by a row that carries C00
OneSegment(lines) ==
    [i \in 1..(Len(lines) + 1) |->
        IF i <= Len(lines) THEN Row(lines[i]) ELSE MarkerLine(0)]

\* a song in which only channel c sounds: its columns are f[1], f[2], ...
SoloSong(c, f) ==
    OneSegment([i \in 1..Len(f) |-> [BlankLine EXCEPT ![c] = f[i]]])

\* the lines in which at most three channels hold their plain note
PlainLines ==
    { [c \in ChannelSet |-> IF c \in on THEN PlainNote(c) ELSE BlankCol] :
        on \in {x \in SUBSET ChannelSet : Cardinality(x) <= 3} }

\* the most rows of a song whose markers vary
MaxSplitRows == 4

\* the markers a row of such a song may carry
MarkerSets ==
    {{}, {MarkerText(0)}, {MarkerText(1)}, {MarkerText(2)},
     {MarkerText(0), MarkerText(1)}, {MarkerText(1), MarkerText(2)}}

\* a song whose rows all hold a plain sq2 note and carry the markers m[i]
SplitSong(m) ==
    [i \in 1..Len(m) |->
        [fx |-> m[i], cols |-> [BlankLine EXCEPT !["sq2"] = PlainNote("sq2")]]]

\* the most rows of a two-segment noise song
MaxNoiseRows == 3

\* a noise song cut by C00 before row j and closed by C01 (by C00 alone when
\* j is the closing row); its noise columns are f[1], f[2], ...
NoiseSong(j, f) ==
    [i \in 1..(Len(f) + 1) |->
        [fx |-> (IF i = j THEN {MarkerText(0)} ELSE {})
                \cup (IF i = Len(f) + 1 /\ j <= Len(f)
                      THEN {MarkerText(1)} ELSE {}),
         cols |-> IF i <= Len(f) THEN [BlankLine EXCEPT !["nse"] = f[i]]
                  ELSE BlankLine]]

\* the most notes of a ramp
MaxRamp == 17

\* the row of the i-th note of a ramp: 1, 2, 4, 7, 11, ...
RampRow(i) == 1 + (i * (i - 1)) \div 2

\* a song in which channel c starts a note after 1, 2, 3, ... rows, the
\* k-th and last one on the last row of the segment
RampSong(c, k) ==
    OneSegment([r \in 1..RampRow(k) |->
                  IF \E i \in 1..k : RampRow(i) = r
                  THEN [BlankLine EXCEPT ![c] = PlainNote(c)]
                  ELSE BlankLine])

\* the pulse scenario: C-3 at volume F, a blank note at volume 0 on the
\* third row, D-3 at volume F on the sixth row
ScenarioColumns ==
    <<Col("C", "-", "3", "F"), BlankCol, Col(".", ".", ".", "0"),
      BlankCol, BlankCol, Col("D", "-", "3", "F")>>

\* the scenario on a pulse channel p, beside plain notes of a channel q on
\* the rows i with g[i]
ScenarioSong(p, q, g) ==
    OneSegment([i \in 1..Len(ScenarioColumns) |->
                  [BlankLine EXCEPT ![p] = ScenarioColumns[i],
                                    ![q] = IF g[i] THEN PlainNote(q)
                                           ELSE BlankCol]])

(***************************************************************************)
(* The program                                                             *)
(***************************************************************************)
InitOf(text) ==
    /\ song = text
    /\ pc = "start"
    /\ seg_bounds = << >>
    /\ segments = << >>
    /\ cur = None
    /\ chan = 1
    /\ last_two_noise_notes = <<None, None>>
    /\ warned = FALSE
    /\ out = << >>
    /\ err = ""

\* the songs in which a single channel sounds, and those in which several
\* channels hold plain notes
Init ==
    \/ \E n \in 1..MaxRows : \E c \in ChannelSet :
          \E f \in [1..n -> Columns(c) \cup {BlankCol}] : InitOf(SoloSong(c, f))
    \/ \E n \in 1..MaxMultiRows :
          \E f \in [1..n -> PlainLines] : InitOf(OneSegment(f))

\* FTSong.__init__ up to the loop over seg_bounds
FindSegments ==
    /\ pc = "start"
    /\ seg_bounds' = get_segments(song)
    /\ pc' = IF seg_bounds' = << >> THEN "error" ELSE "segment"
    /\ err' = IF seg_bounds' = << >> THEN "Exception" ELSE ""
    /\ UNCHANGED <<song, segments, cur, chan, last_two_noise_notes, warned, out>>

\* FTSegment.__init__ up to the loop over the lines of segdata
NewSegment ==
    /\ pc = "segment"
    /\ LET b == seg_bounds[Len(segments) + 1] IN
       /\ cur' = [segnum |-> Len(segments),
                  start |-> b[1],
                  end |-> b[2],
                  next |-> b[1],
                  total_rows |-> 0,
                  rest_array |-> << >>,
                  channels |-> [c \in ChannelSet |->
                                   [notes |-> << >>, buffer |-> << >>]]]
       /\ pc' = IF b[1] < b[2] THEN "rows" ELSE "lengths"
    /\ chan' = 1
    /\ UNCHANGED <<song, seg_bounds, segments, last_two_noise_notes, warned,
                   out, err>>

\* one ROW line of the segment: total_rows += 1, then _parse_row
ParseRow ==
    /\ pc = "rows"
    /\ LET row == cur.total_rows + 1
           r == ParseColumns(1, cur.channels, last_two_noise_notes, row,
                             song[cur.next].cols)
       IN /\ cur' = [cur EXCEPT !.total_rows = row,
                                !.channels = r.channels,
                                !.next = IF r.err = "" THEN cur.next + 1
                                         ELSE cur.next]
          /\ last_two_noise_notes' = r.ltn
          /\ err' = r.err
          /\ pc' = IF r.err # "" THEN "error"
                   ELSE IF cur.next + 1 < cur.end THEN "rows"
                   ELSE "lengths"
    /\ UNCHANGED <<song, seg_bounds, segments, chan, warned, out>>

\* a _create_channel_buffers with a single loop: set_note_lengths of one
\* channel, and its create_buffer at once
SetNoteLengthsAndCreateBuffer ==
    /\ pc = "lengths"
    /\ LET c == CHANNELS[chan]
           notes == cur.channels[c].notes
           rest_array == RestArrayAfter(notes, cur.total_rows, cur.rest_array)
           lengths == WithLengths(notes, cur.total_rows)
       IN /\ cur' = IF Len(notes) = 0 THEN cur
                    ELSE [cur EXCEPT
                            !.channels[c].notes = lengths,
                            !.channels[c].buffer =
                                BufferValues(lengths, rest_array, c),
                            !.rest_array = rest_array]
          /\ warned' = (warned \/ (Len(notes) > 0
                                    /\ Len(rest_array) > REST_ARRAY_MAX))
    /\ chan' = IF chan < Len(CHANNELS) THEN chan + 1 ELSE 1
    /\ pc' = IF chan < Len(CHANNELS) THEN "lengths" ELSE "buffers"
    /\ UNCHANGED <<song, seg_bounds, segments, last_two_noise_notes, out, err>>

\* _create_channel_buffers, first loop: set_note_lengths of one channel
SetNoteLengths ==
    /\ pc = "lengths"
    /\ LET c == CHANNELS[chan]
           notes == cur.channels[c].notes
           rest_array == RestArrayAfter(notes, cur.total_rows, cur.rest_array)
       IN /\ cur' = IF Len(notes) = 0 THEN cur
                    ELSE [cur EXCEPT
                            !.channels[c].notes = WithLengths(notes, cur.total_rows),
                            !.rest_array = rest_array]
          /\ warned' = (warned \/ (Len(notes) > 0
                                    /\ Len(rest_array) > REST_ARRAY_MAX))
    /\ chan' = IF chan < Len(CHANNELS) THEN chan + 1 ELSE 1
    /\ pc' = IF chan < Len(CHANNELS) THEN "lengths" ELSE "buffers"
    /\ UNCHANGED <<song, seg_bounds, segments, last_two_noise_notes, out, err>>

\* _create_channel_buffers, second loop: create_buffer of one channel; after
\* the last one the segment is appended to FTSong.segments
CreateBuffer ==
    /\ pc = "buffers"
    /\ LET c == CHANNELS[chan]
           values == BufferValues(cur.channels[c].notes, cur.rest_array, c)
           error == BufferError(values)
           built == [cur EXCEPT !.channels[c].buffer = values]
       IN /\ err' = error
          /\ cur' = IF error = "" THEN built ELSE cur
          /\ IF error # ""
             THEN /\ pc' = "error"
                  /\ UNCHANGED <<chan, segments>>
             ELSE IF chan < Len(CHANNELS)
             THEN /\ pc' = "buffers"
                  /\ chan' = chan + 1
                  /\ UNCHANGED segments
             ELSE /\ segments' = Append(segments, built)
                  /\ chan' = 1
                  /\ pc' = IF Len(segments) + 1 < Len(seg_bounds)
                           THEN "segment" ELSE "dump"
    /\ UNCHANGED <<song, seg_bounds, last_two_noise_notes, warned, out>>

\* dump_segments: format_segment of the next segment
FormatSegment ==
    /\ pc = "dump"
    /\ out' = Append(out, format_smb3_asm(segments[Len(out) + 1]))
    /\ pc' = IF Len(out) + 1 < Len(segments) THEN "dump" ELSE "done"
    /\ UNCHANGED <<song, seg_bounds, segments, cur, chan,
                   last_two_noise_notes, warned, err>>

Next ==
    \/ FindSegments
    \/ NewSegment
    \/ ParseRow
    \/ SetNoteLengths
    \/ CreateBuffer
    \/ FormatSegment

Spec == Init /\ [][Next]_vars

\* the program on the songs whose markers vary
InitSplit ==
    \E n \in 1..MaxSplitRows : \E m \in [1..n -> MarkerSets] : InitOf(SplitSong(m))

SpecSplit == InitSplit /\ [][Next]_vars

\* the program on the two-segment noise songs
InitNoise ==
    \E n \in 1..MaxNoiseRows : \E j \in 2..(n + 1) :
        \E f \in [1..n -> Columns("nse") \cup {BlankCol}] : InitOf(NoiseSong(j, f))

SpecNoise == InitNoise /\ [][Next]_vars

\* the program on the ramps
InitRamp == \E c \in ChannelSet : \E k \in 1..MaxRamp : InitOf(RampSong(c, k))

SpecRamp == InitRamp /\ [][Next]_vars

\* the program on the pulse scenario
InitScenario ==
    \E p \in {"sq1", "sq2"} : \E q \in ChannelSet \ {p} :
        \E g \in [1..Len(ScenarioColumns) -> BOOLEAN] : InitOf(ScenarioSong(p, q, g))

SpecScenario == InitScenario /\ [][Next]_vars

(***************************************************************************)
(* What the claims speak of                                                *)
(***************************************************************************)
\* the segments whose byte generation is over
Built == {segments[i] : i \in 1..Len(segments)}

\* the segments built or under construction
Known == Built \cup (IF cur = None THEN {} ELSE {cur})

\* the column of channel c on row r of segment s
ColumnOf(s, r, c) == song[s.start + r - 1].cols[c]

\* the rows of segment s that _parse_row has parsed to its end
ParsedRows(s) == 1..(s.next - s.start)

\* the indices of the notes of a channel that start on row r
NotesAt(notes, r) == {i \in 1..Len(notes) : notes[i].row = r}

(***************************************************************************)
(* C1: the Note Table (rest_array) of a segment never holds more than 16   *)
(* entries: meeting a 17th distinct duration aborts the run, so that no    *)
(* segment is ever built with a longer table and no length byte is built   *)
(* from an index of 16 or more.                                            *)
(***************************************************************************)
C1_NoteTableAtMost16 ==
    /\ \A s \in Known : Len(s.rest_array) <= 16
    /\ \A s \in Built : \A c \in ChannelSet :
          \A i \in 1..Len(s.channels[c].notes) :
             ListIndex(s.rest_array, s.channels[c].notes[i].length) < 16

(***************************************************************************)
(* C2: decoding a channel buffer gives back the channel's (note code,      *)
(* duration) pairs in order.  The decoder reads a byte 0xA0|i as "the      *)
(* current length is Note Table entry i" and every other byte before the   *)
(* terminator as a note played with the current length.                    *)
(***************************************************************************)
\* the bytes before the terminator of a master channel's buffer
BeforeTerminator(buffer, c) ==
    IF c \in {"sq2", "nse"} /\ buffer # << >>
    THEN SubSeq(buffer, 1, Len(buffer) - 1) ELSE buffer

\* Note Table entry i, -1 for an entry the table does not have
TableEntry(rest_array, i) ==
    IF i < Len(rest_array) THEN rest_array[i + 1] ELSE -1

RECURSIVE DecodeFrom(_, _, _, _)
DecodeFrom(bytes, i, rest_array, length) ==
    IF i > Len(bytes) THEN << >>
    ELSE IF bytes[i] >= 160 /\ bytes[i] < 176
    THEN DecodeFrom(bytes, i + 1, rest_array,
                    TableEntry(rest_array, bytes[i] - 160))
    ELSE << <<bytes[i], length>> >>
         \o DecodeFrom(bytes, i + 1, rest_array, length)

Decode(buffer, rest_array, c) ==
    DecodeFrom(BeforeTerminator(buffer, c), 1, rest_array, -1)

\* the (note code, duration) pairs of a channel
Events(notes) == [i \in 1..Len(notes) |-> <<notes[i].notebyte, notes[i].length>>]

C2_RoundTrip ==
    \A s \in Built : \A c \in ChannelSet :
        Decode(s.channels[c].buffer, s.rest_array, c) = Events(s.channels[c].notes)

(***************************************************************************)
(* C3, as claimed: after byte generation the nse and sq2 buffers end in    *)
(* byte 0x00 and the sq1, tri and dpcm buffers do not.                     *)
(***************************************************************************)
LastByte(buffer) == buffer[Len(buffer)]

C3_MasterBuffersEndInZero ==
    \A s \in Built : \A c \in ChannelSet :
        LET buffer == s.channels[c].buffer IN
        IF c \in {"sq2", "nse"}
        THEN buffer # << >> /\ LastByte(buffer) = 0
        ELSE buffer = << >> \/ LastByte(buffer) # 0

(***************************************************************************)
(* C3, amended: a channel without events has an empty buffer; the nse and  *)
(* sq2 buffers of a channel with events end in a terminator 0x00 that      *)
(* follows the last event's note byte; the sq1, tri and dpcm buffers get   *)
(* no terminator and end in the last event's note byte (which is 0x00      *)
(* exactly when that event has note code 0).                               *)
(***************************************************************************)
C3_TerminatorOnlyAfterEvents ==
    \A s \in Built : \A c \in ChannelSet :
        LET buffer == s.channels[c].buffer
            notes == s.channels[c].notes
        IN IF notes = << >> THEN buffer = << >>
           ELSE IF c \in {"sq2", "nse"}
           THEN /\ Len(buffer) >= 3
                /\ LastByte(buffer) = 0
                /\ buffer[Len(buffer) - 1] = notes[Len(notes)].notebyte
           ELSE /\ Len(buffer) >= 2
                /\ LastByte(buffer) = notes[Len(notes)].notebyte

\* a segment is built in which sq2 and nse end in the terminator and sq1
\* holds events
C3_Witness ==
    \E s \in Built :
        /\ s.channels["sq2"].notes # << >>
        /\ s.channels["nse"].notes # << >>
        /\ s.channels["sq1"].notes # << >>
        /\ LastByte(s.channels["nse"].buffer) = 0

(***************************************************************************)
(* The noise events of the song so far, in the order they were recorded,   *)
(* over all its segments.                                                  *)
(***************************************************************************)
\* the segments in order, the one under construction last
AllSegments ==
    IF cur # None /\ cur.segnum = Len(segments)
    THEN Append(segments, cur) ELSE segments

RECURSIVE NoiseFrom(_, _)
NoiseFrom(segs, i) ==
    IF i > Len(segs) THEN << >>
    ELSE [k \in 1..Len(segs[i].channels["nse"].notes) |->
            [seg |-> i,
             row |-> segs[i].channels["nse"].notes[k].row,
             notebyte |-> segs[i].channels["nse"].notes[k].notebyte]]
         \o NoiseFrom(segs, i + 1)

NoiseHistory == NoiseFrom(AllSegments, 1)

\* how many noise events were recorded before row r of the i-th segment
NoiseBefore(i, r) ==
    Cardinality({k \in 1..Len(NoiseHistory) :
                    \/ NoiseHistory[k].seg < i
                    \/ NoiseHistory[k].seg = i /\ NoiseHistory[k].row < r})

\* the column is a cutoff '---'
RowIsCutoff(t) == get_note_field(t) = <<"-", "-">>

\* the note field of the column names a pitch
RowHasPitch(t) == get_note_field(t) \notin {<<".", ".">>, <<"-", "-">>}

\* volume "0" on a channel other than triangle and sample playback
RowIsZeroVolume(t, c) == c \notin {"tri", "dpcm"} /\ get_volume_field(t) = "0"

\* a noise column with a blank note and a volume neither blank nor "0"
RowRaisesVolume(t, c) ==
    /\ c = "nse"
    /\ get_note_field(t) = <<".", ".">>
    /\ get_volume_field(t) \notin {".", "0"}

\* the rest code of a channel
RestCode(c) == IF c = "nse" THEN 1 ELSE 126

\* the most recent noise event before row r of the i-th segment is a Rest
AfterNoiseRest(i, r) ==
    /\ NoiseBefore(i, r) >= 1
    /\ NoiseHistory[NoiseBefore(i, r)].notebyte = 1

(***************************************************************************)
(* C4, as claimed: a row whose note field names a pitch records a Sounding *)
(* event with the channel's computed note code; the zero-volume rule turns *)
(* into a Rest only a row that is not a new note.                          *)
(***************************************************************************)
C4_PitchBeforeZeroVolume ==
    \A i \in 1..Len(AllSegments) : \A c \in ChannelSet :
        LET s == AllSegments[i] IN
        \A r \in ParsedRows(s) :
            LET t == ColumnOf(s, r, c)
                notes == s.channels[c].notes
                at == NotesAt(notes, r)
            IN /\ Cardinality(at) <= 1
               /\ IF RowIsCutoff(t)
                  THEN \E k \in at : notes[k].notebyte = RestCode(c)
                  ELSE IF RowHasPitch(t)
                  THEN \E k \in at : notes[k].notebyte = PitchByte(t, c)
                  ELSE IF RowIsZeroVolume(t, c)
                  THEN \E k \in at : notes[k].notebyte = RestCode(c)
                  ELSE IF RowRaisesVolume(t, c)
                  THEN (at # {}) <=> AfterNoiseRest(i, r)
                  ELSE at = {}

(***************************************************************************)
(* C4, amended: each parsed row yields exactly one of, in this order of    *)
(* precedence: Rest (the note field is the cutoff, or the volume field is  *)
(* "0" on a channel other than triangle and sample playback, also when     *)
(* the note field names a pitch), new Sounding note with the channel's     *)
(* computed note code, clone (noise only), no event.                       *)
(***************************************************************************)
C4_RestBeforePitch ==
    \A i \in 1..Len(AllSegments) : \A c \in ChannelSet :
        LET s == AllSegments[i] IN
        \A r \in ParsedRows(s) :
            LET t == ColumnOf(s, r, c)
                notes == s.channels[c].notes
                at == NotesAt(notes, r)
            IN /\ Cardinality(at) <= 1
               /\ IF RowIsCutoff(t) \/ RowIsZeroVolume(t, c)
                  THEN \E k \in at : notes[k].notebyte = RestCode(c)
                  ELSE IF RowHasPitch(t)
                  THEN \E k \in at : notes[k].notebyte = PitchByte(t, c)
                  ELSE IF RowRaisesVolume(t, c)
                  THEN (at # {}) <=> AfterNoiseRest(i, r)
                  ELSE at = {}

\* a row that names a pitch at volume "0" was parsed into a Rest
C4_Witness ==
    \E i \in 1..Len(AllSegments) : \E c \in {"sq1", "sq2", "nse"} :
        LET s == AllSegments[i] IN
        \E r \in ParsedRows(s) :
            /\ RowHasPitch(ColumnOf(s, r, c))
            /\ get_volume_field(ColumnOf(s, r, c)) = "0"
            /\ \E k \in NotesAt(s.channels[c].notes, r) :
                  s.channels[c].notes[k].notebyte = RestCode(c)

(***************************************************************************)
(* C5, as claimed: whenever the most recently recorded noise event is a    *)
(* Rest and the next row has a blank note field and a volume field neither *)
(* blank nor "0", that row records a new Sounding event whose note code is *)
(* that of the noise event recorded immediately before that Rest.          *)
(***************************************************************************)
C5_CloneAfterEveryRest ==
    \A i \in 1..Len(AllSegments) : \A r \in 1..AllSegments[i].total_rows :
        LET n == NoiseBefore(i, r) IN
        (RowRaisesVolume(ColumnOf(AllSegments[i], r, "nse"), "nse")
            /\ AfterNoiseRest(i, r))
        => /\ n >= 2
           /\ Len(NoiseHistory) > n
           /\ NoiseHistory[n + 1].seg = i
           /\ NoiseHistory[n + 1].row = r
           /\ NoiseHistory[n + 1].notebyte = NoiseHistory[n - 1].notebyte
           /\ NoiseHistory[n + 1].notebyte # 1

(***************************************************************************)
(* C5, amended: whenever the most recently recorded noise event is a Rest  *)
(* and the next row has a blank note field and a volume field neither      *)
(* blank nor "0": if a noise event was recorded before that Rest (in this  *)
(* or an earlier segment), the row records a new event whose note code is  *)
(* that of the event recorded immediately before the Rest (the rest code   *)
(* again when that event was a Rest); if the Rest is the first noise event *)
(* of the song, the run aborts and the row records nothing.                *)
(***************************************************************************)
C5_CloneOfEventBeforeRest ==
    \A i \in 1..Len(AllSegments) : \A r \in 1..AllSegments[i].total_rows :
        LET n == NoiseBefore(i, r) IN
        (RowRaisesVolume(ColumnOf(AllSegments[i], r, "nse"), "nse")
            /\ AfterNoiseRest(i, r))
        => IF n >= 2
           THEN /\ Len(NoiseHistory) > n
                /\ NoiseHistory[n + 1].seg = i
                /\ NoiseHistory[n + 1].row = r
                /\ NoiseHistory[n + 1].notebyte = NoiseHistory[n - 1].notebyte
           ELSE /\ pc = "error"
                /\ Len(NoiseHistory) = n

\* a clone was recorded in a segment that holds neither the Rest nor the
\* event before it: its note code comes from the carried state
C5_Witness ==
    \E i \in 1..Len(AllSegments) : \E r \in 1..AllSegments[i].total_rows :
        LET n == NoiseBefore(i, r) IN
        /\ RowRaisesVolume(ColumnOf(AllSegments[i], r, "nse"), "nse")
        /\ AfterNoiseRest(i, r)
        /\ n >= 2
        /\ NoiseHistory[n].seg < i
        /\ Len(NoiseHistory) > n
        /\ NoiseHistory[n + 1].row = r
        /\ NoiseHistory[n + 1].notebyte = 3

(***************************************************************************)
(* C6: a 6-row segment on a pulse channel with C-3 (volume F) on the first *)
(* row, a blank note at volume 0 on the third row and D-3 (volume F) on    *)
(* the sixth row yields the events Sounding(code 0, duration 2),           *)
(* Rest(duration 3), Sounding(code 2, duration 1), a Note Table holding    *)
(* 2, 3, 1 in that order, and the channel buffer A0 00 A1 7E A2 02.        *)
(***************************************************************************)
\* segment s holds the scenario on pulse channel p
HoldsScenario(s, p) ==
    /\ s.total_rows = Len(ScenarioColumns)
    /\ \A r \in 1..Len(ScenarioColumns) : ColumnOf(s, r, p) = ScenarioColumns[r]

\* a, b and c occur in the list in this order
InOrder(list, a, b, c) ==
    \E i, j, k \in 1..Len(list) :
        i < j /\ j < k /\ list[i] = a /\ list[j] = b /\ list[k] = c

C6_PulseScenario ==
    \A s \in Built : \A p \in {"sq1", "sq2"} :
        HoldsScenario(s, p)
        => /\ s.channels[p].notes =
                <<[row |-> 1, notebyte |-> 0, length |-> 2],
                  [row |-> 3, notebyte |-> 126, length |-> 3],
                  [row |-> 6, notebyte |-> 2, length |-> 1]>>
           /\ InOrder(s.rest_array, 2, 3, 1)
           /\ BeforeTerminator(s.channels[p].buffer, p) = <<160, 0, 161, 126, 162, 2>>

(***************************************************************************)
(* C7: after duration resolution the Note Table holds exactly the distinct *)
(* durations of the events of all channels, without duplicates, in         *)
(* first-seen order, every entry positive; an event lasts until the next   *)
(* event of its channel, the last one until the exclusive end of the       *)
(* segment, so that an event on the last row has duration 1.               *)
(***************************************************************************)
\* the duration claimed for note i: rows are numbered from 1, so the
\* exclusive end of the segment is row total_rows + 1
ClaimedDuration(notes, i, total_rows) ==
    IF i < Len(notes) THEN notes[i + 1].row - notes[i].row
    ELSE (total_rows + 1) - notes[i].row

RECURSIVE DurationsFrom(_, _)
\* the durations of the events, channel after channel in parse order
DurationsFrom(s, i) ==
    IF i > Len(CHANNELS) THEN << >>
    ELSE [k \in 1..Len(s.channels[CHANNELS[i]].notes) |->
             s.channels[CHANNELS[i]].notes[k].length]
         \o DurationsFrom(s, i + 1)

\* list holds the values of all in first-seen order, each once
FirstSeenOrder(list, all) ==
    /\ {list[i] : i \in 1..Len(list)} = {all[i] : i \in 1..Len(all)}
    /\ \A i, j \in 1..Len(list) : i # j => list[i] # list[j]
    /\ \A i, j \in 1..Len(list) :
          i < j => \E a \in 1..Len(all) :
                      /\ all[a] = list[i]
                      /\ \A b \in 1..Len(all) : all[b] = list[j] => a < b

C7_NoteTableOfPositiveDurations ==
    \A s \in Built :
        /\ \A c \in ChannelSet : \A i \in 1..Len(s.channels[c].notes) :
              s.channels[c].notes[i].length =
                  ClaimedDuration(s.channels[c].notes, i, s.total_rows)
        /\ FirstSeenOrder(s.rest_array, DurationsFrom(s, 1))
        /\ \A i \in 1..Len(s.rest_array) : s.rest_array[i] > 0

(***************************************************************************)
(* Segment boundaries                                                      *)
(***************************************************************************)
\* the first row that carries marker C{N:02X}, 0 if no row does
FirstRowWith(N) ==
    IF \E r \in 1..Len(song) : MarkerText(N) \in song[r].fx
    THEN CHOOSE r \in 1..Len(song) :
            /\ MarkerText(N) \in song[r].fx
            /\ \A q \in 1..(r - 1) : MarkerText(N) \notin song[q].fx
    ELSE 0

\* the number of markers found: C00, C01, ... up to the first one missing
MarkersFound ==
    CHOOSE n \in 0..256 :
        /\ \A N \in 0..(n - 1) : FirstRowWith(N) # 0
        /\ FirstRowWith(n) = 0

\* the markers found lie on increasing rows
MarkersIncrease ==
    \A N \in 1..(MarkersFound - 1) : FirstRowWith(N - 1) < FirstRowWith(N)

\* the first row of segment N, and its last row (N from 0)
FirstRowOf(N) == seg_bounds[N + 1][1]

LastRowOf(N) == seg_bounds[N + 1][2] - 1

\* the rows of segment N
RowsOf(N) == {r \in 1..Len(song) : FirstRowOf(N) <= r /\ r <= LastRowOf(N)}

\* consecutive segments cover disjoint, increasing row ranges
RangesIncrease ==
    \A N \in 0..(Len(seg_bounds) - 2) :
        \A r \in RowsOf(N) : \A q \in RowsOf(N + 1) : r < q

(***************************************************************************)
(* C8, as claimed: for the markers C00, C01, ... found, segment N ends at  *)
(* the row before the row that carries C{N:02X} and the row after that     *)
(* marker row is the first row of segment N+1; segment 0 starts at the     *)
(* first row; when the markers lie on increasing rows, consecutive         *)
(* segments cover disjoint, increasing row ranges.                         *)
(***************************************************************************)
C8_NextSegmentAfterMarkerRow ==
    pc # "start"
    => /\ Len(seg_bounds) = MarkersFound
       /\ \A N \in 0..(Len(seg_bounds) - 1) :
             /\ LastRowOf(N) = FirstRowWith(N) - 1
             /\ FirstRowOf(N) = IF N = 0 THEN 1 ELSE FirstRowWith(N - 1) + 1
       /\ MarkersIncrease => RangesIncrease

(***************************************************************************)
(* C8, amended: for the markers C00, C01, ... found, segment N ends at the *)
(* row before the row that carries C{N:02X} and that marker row itself is  *)
(* the first row of segment N+1; segment 0 starts at the first row; when   *)
(* the markers lie on increasing rows, consecutive segments cover          *)
(* disjoint, increasing row ranges.                                        *)
(***************************************************************************)
C8_NextSegmentAtMarkerRow ==
    pc # "start"
    => /\ Len(seg_bounds) = MarkersFound
       /\ \A N \in 0..(Len(seg_bounds) - 1) :
             /\ LastRowOf(N) = FirstRowWith(N) - 1
             /\ FirstRowOf(N) = IF N = 0 THEN 1 ELSE FirstRowWith(N - 1)
       /\ MarkersIncrease => RangesIncrease

\* three segments were found on increasing marker rows, the later ones
\* not empty
C8_Witness ==
    /\ pc # "start"
    /\ MarkersIncrease
    /\ Len(seg_bounds) = 3
    /\ RowsOf(1) # {}
    /\ RowsOf(2) # {}

(***************************************************************************)
(* C9: the segment blob is the concatenation of the channel buffers in the *)
(* order sq2, sq1, tri, nse, dpcm; the offset reported for sq1, tri, nse   *)
(* and dpcm is 0 when the channel has no events (its buffer is empty) and  *)
(* else the sum of the lengths of the buffers before it, so that the blob  *)
(* holds the channel's buffer from that offset on.                         *)
(***************************************************************************)
\* the offset reported for a channel
OffsetOf(o, c) ==
    CASE c = "sq1" -> o.sq1off
      [] c = "tri" -> o.trioff
      [] c = "nse" -> o.nseoff
      [] c = "dpcm" -> o.dpcmoff

\* the lengths of the buffers laid out before the i-th one
LengthBefore(s, i) ==
    IF i = 1 THEN 0
    ELSE IF i = 2 THEN Len(s.channels["sq2"].buffer)
    ELSE IF i = 3 THEN Len(s.channels["sq2"].buffer) + Len(s.channels["sq1"].buffer)
    ELSE IF i = 4 THEN Len(s.channels["sq2"].buffer) + Len(s.channels["sq1"].buffer)
                       + Len(s.channels["tri"].buffer)
    ELSE Len(s.channels["sq2"].buffer) + Len(s.channels["sq1"].buffer)
         + Len(s.channels["tri"].buffer) + Len(s.channels["nse"].buffer)

C9_SegmentLayout ==
    \A n \in 1..Len(out) :
        LET s == segments[n]
            o == out[n]
        IN /\ o.segdata = s.channels["sq2"].buffer \o s.channels["sq1"].buffer
                          \o s.channels["tri"].buffer \o s.channels["nse"].buffer
                          \o s.channels["dpcm"].buffer
           /\ \A i \in 2..5 :
                 LET c == <<"sq2", "sq1", "tri", "nse", "dpcm">>[i]
                     buffer == s.channels[c].buffer
                 IN IF s.channels[c].notes = << >>
                    THEN buffer = << >> /\ OffsetOf(o, c) = 0
                    ELSE /\ OffsetOf(o, c) = LengthBefore(s, i)
                         /\ SubSeq(o.segdata, OffsetOf(o, c) + 1,
                                   OffsetOf(o, c) + Len(buffer)) = buffer

\* a segment was formatted in which sq1 is silent and sq2, tri and dpcm are
\* not: sq1 reports 0 and tri the length of the sq2 buffer
C9_Witness ==
    \E n \in 1..Len(out) :
        /\ segments[n].channels["sq2"].notes # << >>
        /\ segments[n].channels["sq1"].notes = << >>
        /\ segments[n].channels["tri"].notes # << >>
        /\ segments[n].channels["dpcm"].notes # << >>
        /\ out[n].sq1off = 0
        /\ out[n].trioff = Len(segments[n].channels["sq2"].buffer)
        /\ out[n].dpcmoff > out[n].trioff

(***************************************************************************)
(* C10: for a channel with events, create_buffer emits one length byte for *)
(* the first event and one for every later event whose duration differs    *)
(* from that of the event before it, and no other; the buffer holds one    *)
(* note byte per event, and an event of the same duration as the event     *)
(* before it is not preceded by a length byte.                             *)
(***************************************************************************)
\* the events up to the k-th that start a new duration
DurationChanges(notes, k) ==
    1 + Cardinality({j \in 2..k : notes[j].length # notes[j - 1].length})

\* where the note byte of the k-th event lies in the buffer
NotePosition(notes, k) == k + DurationChanges(notes, k)

C10_OneLengthBytePerDurationChange ==
    \A s \in Built : \A c \in ChannelSet :
        LET notes == s.channels[c].notes
            buffer == s.channels[c].buffer
            n == Len(notes)
        IN n > 0
           => /\ Len(buffer) = n + DurationChanges(notes, n)
                               + (IF c \in {"sq2", "nse"} THEN 1 ELSE 0)
              /\ \A k \in 1..n :
                    /\ buffer[NotePosition(notes, k)] = notes[k].notebyte
                    /\ (k = 1 \/ notes[k].length # notes[k - 1].length)
                       => buffer[NotePosition(notes, k) - 1]
                          = BitOr(160, ListIndex(s.rest_array, notes[k].length))
                    /\ (k > 1 /\ notes[k].length = notes[k - 1].length)
                       => NotePosition(notes, k) - 1 = NotePosition(notes, k - 1)

\* a channel was built with three events, the second of the duration of the
\* first and the third of another
C10_Witness ==
    \E s \in Built : \E c \in ChannelSet :
        LET notes == s.channels[c].notes IN
        /\ Len(notes) = 3
        /\ notes[2].length = notes[1].length
        /\ notes[3].length # notes[2].length
        /\ Len(BeforeTerminator(s.channels[c].buffer, c)) = 5

(***************************************************************************)
(* C11: within a segment no byte is in any channel's buffer until every    *)
(* row of the segment has been parsed and set_note_lengths has run for     *)
(* every channel; once a buffer holds a byte the segment's rest_array is   *)
(* never modified, so that every length byte written for an event is       *)
(* 0xA0 | i for an i at which the final rest_array holds the event's       *)
(* length.                                                                 *)
(***************************************************************************)
\* some channel of the segment has a byte in its buffer
HasBytes(s) == \E c \in ChannelSet : s.channels[c].buffer # << >>

\* every row of the segment has been parsed
AllRowsParsed(s) ==
    /\ s.next = s.end
    /\ s.total_rows = s.end - s.start

\* set_note_lengths has run for every channel: every note has its length,
\* and the rest_array holds it
AllLengthsSet(s) ==
    \A c \in ChannelSet :
        LET notes == s.channels[c].notes IN
        \A k \in 1..Len(notes) :
            /\ "length" \in DOMAIN notes[k]
            /\ notes[k].length = NoteLength(notes, k, s.total_rows)
            /\ \E i \in 1..Len(s.rest_array) : s.rest_array[i] = notes[k].length

\* every length byte in a buffer of the segment names an entry of the
\* rest_array that holds the length of its event
LengthBytesNameTheLength(s) ==
    \A c \in ChannelSet :
        LET notes == s.channels[c].notes
            buffer == s.channels[c].buffer
        IN buffer # << >>
           => \A k \in 1..Len(notes) :
                 (k = 1 \/ notes[k].length # notes[k - 1].length)
                 => \E i \in 0..(Len(s.rest_array) - 1) :
                       /\ buffer[NotePosition(notes, k) - 1] = BitOr(i, 160)
                       /\ s.rest_array[i + 1] = notes[k].length

\* a step leaves the rest_array of the segment being built alone once a
\* buffer holds a byte, and that of every built segment
RestArrayKept ==
    /\ (cur # None /\ HasBytes(cur) /\ cur' # None
        /\ cur'.segnum = cur.segnum)
       => cur'.rest_array = cur.rest_array
    /\ \A n \in 1..Len(segments) :
          /\ n <= Len(segments')
          /\ segments'[n].rest_array = segments[n].rest_array

C11_LengthsBeforeBytes ==
    /\ [](\A s \in Known :
             HasBytes(s)
             => /\ AllRowsParsed(s)
                /\ AllLengthsSet(s)
                /\ LengthBytesNameTheLength(s)
                /\ (s = cur => pc \notin {"rows", "lengths"}))
    /\ [][RestArrayKept]_vars

\* create_buffer has run for a channel and not yet for another one that has
\* a note of a length the first channel does not have
C11_Witness ==
    /\ pc = "buffers"
    /\ \E c, d \in ChannelSet :
          /\ cur.channels[c].buffer # << >>
          /\ cur.channels[d].buffer = << >>
          /\ \E k \in 1..Len(cur.channels[d].notes) :
                \A j \in 1..Len(cur.channels[c].notes) :
                    cur.channels[c].notes[j].length
                    # cur.channels[d].notes[k].length

=============================================================================
